---- MODULE Spec2Model ----
(***************************************************************************)
(* State-machine model of MRS/simulation/gaba_gauss1.c: main() loads an RF *)
(* waveform and a spin system, derives the MEGA-PRESS delays, drives the   *)
(* density operator through the pulse sequence and writes the FID.         *)
(*                                                                         *)
(* Times are integer microseconds (0.068 s = 68000, 32e-6 s = 32), so the  *)
(* delay arithmetic of lines 63-69 is exact.  Operators of the GAMMA       *)
(* library are symbolic terms: a density operator is the equilibrium       *)
(* operator plus the ordered list of unitaries applied to it.              *)
(***************************************************************************)
EXTENDS Integers, Sequences, FiniteSets

\* ------------------------------------------------------------- bounds
\* longest waveform whose every sample sequence is enumerated
MaxSamples == 2
\* how many samples beyond the last valid length (875) a long waveform has
MaxOver == 1
\* how many samples short of the request a read may return
MaxShort == 1

\* ------------------------------------------------- program constants
t_te == 68000
t_dwell == 32
t_12 == 6000
angle_factor == 1
SizeofFloat == 4
NPrint == 10
NPoints == 2048
AcqDwell == 200

None == <<>>
Some(x) == <<x>>

\* ------------------------------------------------------------- inputs
\* sample amplitudes a waveform file (or fresh heap memory) may hold
SampleVals == {0, 1}

SeqsUpTo(S, n) == UNION {[1..k -> S] : k \in 0..n}

\* the longest waveform for which every derived delay is non-negative
MaxValidLen == (t_te \div 2 - t_12) \div t_dwell

\* a waveform file: whole float samples followed by 0..3 trailing bytes
SmallWaves == {[samples |-> s, extra |-> e] :
                 s \in SeqsUpTo(SampleVals, MaxSamples), e \in 0..(SizeofFloat - 1)}
ConstWave(n, v) == [samples |-> [k \in 1..n |-> v], extra |-> 0]
MidWaves == {ConstWave(n, v) : n \in {4, NPrint}, v \in {0, 1}}
LongWaves == {ConstWave(n, 1) : n \in MaxValidLen..(MaxValidLen + MaxOver)}

\* argv: program name, output file, field offset.  The offset argument is
\* kept as its characters (ASCII codes), which is what atoi reads.
ProgName == "gaba_gauss1"
OutName == "fid.mat"
\* " \t-5" and "12x"
GoodCmds == {<<ProgName, OutName, <<32, 9, 45, 53>>>>,
             <<ProgName, OutName, <<49, 50, 120>>>>}
\* "99999999999999999999": a value no long holds
HugeCmds == {<<ProgName, OutName, [k \in 1..20 |-> 57]>>}
BadCmds == {<<ProgName, OutName>>, <<ProgName, OutName, <<51>>, <<52>>>>}

\* isspace in the C locale: space, \t, \n, \v, \f, \r
isspace(c) == c = 32 \/ (c >= 9 /\ c <= 13)
\* the value of a decimal digit character, -1 for any other character
DigitVal(c) == IF c >= 48 /\ c <= 57 THEN c - 48 ELSE -1

RECURSIVE SkipSpace(_)
SkipSpace(s) == IF s # <<>> /\ isspace(Head(s)) THEN SkipSpace(Tail(s)) ELSE s

Limb == 65536
HalfLimb == 32768
INT_MAX == 2147483647
INT_MIN == (-INT_MAX) - 1

\* strtol(nptr, NULL, 10) with a 64-bit long: leading white space, an
\* optional sign, then decimal digits up to the first non-digit.  The result
\* is a sign and a magnitude in four 16-bit limbs (least significant first);
\* a value outside long is clamped to LONG_MAX or LONG_MIN and flagged ERANGE.
strtol(str) ==
  LET s == SkipSpace(str)
      neg == s # <<>> /\ Head(s) = 45
      signed == s # <<>> /\ Head(s) \in {43, 45}
      RECURSIVE Acc(_, _)
      \* the digit loop: once the magnitude leaves 64 bits it is only flagged
      Acc(r, m) ==
        IF r = <<>> \/ DigitVal(Head(r)) < 0 THEN m
        ELSE LET x0 == m.l0 * 10 + DigitVal(Head(r))
                 x1 == m.l1 * 10 + x0 \div Limb
                 x2 == m.l2 * 10 + x1 \div Limb
                 x3 == m.l3 * 10 + x2 \div Limb
             IN  IF m.over \/ x3 >= Limb THEN Acc(Tail(r), [m EXCEPT !.over = TRUE])
                 ELSE Acc(Tail(r), [l0 |-> x0 % Limb, l1 |-> x1 % Limb,
                                    l2 |-> x2 % Limb, l3 |-> x3, over |-> FALSE])
      m == Acc(IF signed THEN Tail(s) ELSE s,
               [l0 |-> 0, l1 |-> 0, l2 |-> 0, l3 |-> 0, over |-> FALSE])
      beyond == \/ m.over
                \/ ~neg /\ m.l3 >= HalfLimb
                \/ neg /\ m.l3 > HalfLimb
                \/ neg /\ m.l3 = HalfLimb /\ (m.l2 # 0 \/ m.l1 # 0 \/ m.l0 # 0)
  IN  IF ~beyond
        THEN [neg |-> neg, l0 |-> m.l0, l1 |-> m.l1, l2 |-> m.l2, l3 |-> m.l3,
              erange |-> FALSE]
      ELSE IF neg
        THEN [neg |-> TRUE, l0 |-> 0, l1 |-> 0, l2 |-> 0, l3 |-> HalfLimb,
              erange |-> TRUE]
      ELSE [neg |-> FALSE, l0 |-> Limb - 1, l1 |-> Limb - 1, l2 |-> Limb - 1,
            l3 |-> HalfLimb - 1, erange |-> TRUE]

\* the conversion of a long to int: its low 32 bits, two's complement
NarrowToInt(v) ==
  LET low == IF v.l1 < HalfLimb THEN v.l1 * Limb + v.l0
             ELSE (v.l1 - Limb) * Limb + v.l0
  IN  IF ~v.neg THEN low ELSE IF low = INT_MIN THEN INT_MIN ELSE 0 - low

\* atoi(nptr) is (int) strtol(nptr, NULL, 10).  C leaves the result open when
\* the value is no int; this is what the C library in use returns then.
atoi(str) == NarrowToInt(strtol(str))

VARIABLES
  argv,      \* command line
  wavfile,   \* gaba_gauss_gamma.wav on disk: None if it cannot be opened
  sysfile,   \* whether gaba_gauss_on1.sys can be read
  pc,        \* position of main()
  status,    \* "running" or how the process ended
  outfile, offset1,
  fid,       \* whether the FILE* is open
  rf_size, rho, result, pw, i,
  sys,       \* spin_system
  T,         \* the derived delays t_2g1, t_g13, t_3g2, t_g2r
  sigma0, H, detect,
  udelay,    \* the propagators built by prop(H, t)
  sigma1,    \* working density operator: unitaries applied to sigma0
  elapsed,   \* total free-precession time applied to sigma1
  data,      \* block_1D filled by FID
  matfile    \* the MATLAB output file

vars == <<argv, wavfile, sysfile, pc, status, outfile, offset1, fid, rf_size, rho,
          result, pw, i, sys, T, sigma0, H, detect, udelay, sigma1, elapsed, data,
          matfile>>

inputs == <<argv, wavfile, sysfile>>

\* ------------------------------------------------------------- Init
Init ==
  /\ \/ /\ argv \in GoodCmds \cup BadCmds
        /\ wavfile \in {None} \cup {Some(w) : w \in SmallWaves \cup MidWaves}
        /\ sysfile = TRUE
     \/ /\ argv \in {<<ProgName, OutName, <<45, 53>>>>}
        /\ wavfile \in {Some(w) : w \in LongWaves}
        /\ sysfile = TRUE
     \/ /\ argv \in HugeCmds
        /\ wavfile \in {Some(w) : w \in MidWaves}
        /\ sysfile = TRUE
     \/ /\ argv \in GoodCmds \cup BadCmds
        /\ wavfile \in {None} \cup {Some(w) : w \in SmallWaves \cup MidWaves}
        /\ sysfile = FALSE
  /\ pc = "args"
  /\ status = "running"
  /\ outfile = None
  /\ offset1 = 0
  /\ fid = FALSE
  /\ rf_size = 0
  /\ rho = None
  /\ result = 0
  /\ pw = 0
  /\ i = 0
  /\ sys = None
  /\ T = None
  /\ sigma0 = None
  /\ H = None
  /\ detect = None
  /\ udelay = None
  /\ sigma1 = None
  /\ elapsed = 0
  /\ data = None
  /\ matfile = None

Running(at) == pc = at /\ status = "running"

\* lines 23-30
CheckArgs ==
  /\ Running("args")
  /\ \/ /\ Len(argv) # 3
        /\ status' = "exit0"
        /\ UNCHANGED <<pc, outfile, offset1>>
     \/ /\ Len(argv) = 3
        /\ outfile' = Some(argv[2])
        /\ offset1' = atoi(argv[3])
        /\ pc' = "fopen"
        /\ UNCHANGED status
  /\ UNCHANGED <<inputs, fid, rf_size, rho, result, pw, i, sys, T, sigma0, H, detect,
                 udelay, sigma1, elapsed, data, matfile>>

\* lines 32-34
OpenWave ==
  /\ Running("fopen")
  /\ \/ /\ wavfile = None
        /\ status' = "exit1"
        /\ UNCHANGED <<pc, fid>>
     \/ /\ wavfile # None
        /\ fid' = TRUE
        /\ pc' = "malloc"
        /\ UNCHANGED status
  /\ UNCHANGED <<inputs, outfile, offset1, rf_size, rho, result, pw, i, sys, T, sigma0,
                 H, detect, udelay, sigma1, elapsed, data, matfile>>

FileSize(w) == SizeofFloat * Len(w.samples) + w.extra

\* lines 35-40: the size from ftell, then malloc, which may return NULL
SizeAndAlloc ==
  /\ Running("malloc")
  /\ rf_size' = FileSize(wavfile[1])
  /\ \/ /\ status' = "exit2"
        /\ UNCHANGED pc
     \/ /\ pc' = "fread"
        /\ UNCHANGED status
  /\ UNCHANGED <<inputs, outfile, offset1, fid, rho, result, pw, i, sys, T, sigma0,
                 H, detect, udelay, sigma1, elapsed, data, matfile>>

\* the buffer after fread returned n items: the first n elements are the
\* file's, the rest keep whatever the fresh allocation held
Filled(w, want, n, junk) ==
  [k \in 1..want |-> IF k <= n THEN w.samples[k] ELSE junk[k - n]]

\* lines 41-47: fread may return fewer items than requested; its result is
\* printed and never compared with the request
ReadWave ==
  /\ Running("fread")
  /\ LET want == rf_size \div SizeofFloat
     IN  \E short \in 0..MaxShort :
           /\ short <= want
           /\ \E junk \in [1..short -> SampleVals] :
                /\ result' = want - short
                /\ rho' = Some(Filled(wavfile[1], want, want - short, junk))
                /\ pw' = want
  /\ fid' = FALSE
  /\ i' = 0
  /\ pc' = "print"
  /\ UNCHANGED <<inputs, status, outfile, offset1, rf_size, sys, T, sigma0, H, detect,
                 udelay, sigma1, elapsed, data, matfile>>

\* lines 48-49: rho[i] for i = 0..9 whatever pw is; past the end of the
\* buffer the read is undefined: it yields some value or the process dies
PrintWave ==
  /\ Running("print")
  /\ \/ /\ i < NPrint
        /\ i < pw
        /\ i' = i + 1
        /\ UNCHANGED <<pc, status>>
     \/ /\ i < NPrint
        /\ i >= pw
        /\ \/ /\ i' = i + 1
              /\ UNCHANGED <<pc, status>>
           \/ /\ status' = "crash"
              /\ UNCHANGED <<pc, i>>
     \/ /\ i >= NPrint
        /\ pc' = "sysread"
        /\ UNCHANGED <<i, status>>
  /\ UNCHANGED <<inputs, outfile, offset1, fid, rf_size, rho, result, pw, sys, T,
                 sigma0, H, detect, udelay, sigma1, elapsed, data, matfile>>

\* lines 51-58: sys is default-constructed, then read from the file.  The
\* call's result is discarded: an unreadable file either leaves sys empty
\* and returns, or ends the process inside the library
SysRead ==
  /\ Running("sysread")
  /\ \/ /\ sysfile
        /\ sys' = Some([loaded |-> TRUE, shift |-> 0])
        /\ pc' = "offset"
        /\ UNCHANGED status
     \/ /\ ~sysfile
        /\ sys' = Some([loaded |-> FALSE, shift |-> 0])
        /\ pc' = "offset"
        /\ UNCHANGED status
     \/ /\ ~sysfile
        /\ sys' = Some([loaded |-> FALSE, shift |-> 0])
        /\ status' = "fatal"
        /\ UNCHANGED pc
  /\ UNCHANGED <<inputs, outfile, offset1, fid, rf_size, rho, result, pw, i, T, sigma0,
                 H, detect, udelay, sigma1, elapsed, data, matfile>>

\* spin_system::offsetShifts: every shift moved by the same amount
offsetShifts(s, amount) == [s EXCEPT !.shift = @ + amount]

\* faulty variant: the offset is never applied
OffsetShifts_skipped ==
  /\ Running("offset")
  /\ pc' = "derive"
  /\ UNCHANGED <<inputs, status, outfile, offset1, fid, rf_size, rho, result, pw, i, T,
                 sys, sigma0, H, detect, udelay, sigma1, elapsed, data, matfile>>

\* lines 59-60
OffsetShifts ==
  /\ Running("offset")
  /\ sys' = Some(offsetShifts(sys[1], offset1))
  /\ pc' = "derive"
  /\ UNCHANGED <<inputs, status, outfile, offset1, fid, rf_size, rho, result, pw, i, T,
                 sigma0, H, detect, udelay, sigma1, elapsed, data, matfile>>

\* faulty variants of the delay arithmetic, used to test the claims below
t_2g1_keeps_t12(n) == (t_12 + t_te \div 2) \div 2 - (n * t_dwell) \div 2
t_g13_half_pulse(n) == t_te \div 2 - ((t_12 + t_te \div 2) \div 2 - t_12 - (n * t_dwell) \div 2)
                         - (n * t_dwell) \div 2

\* lines 66-69 (every quotient below is exact in microseconds)
t_2g1(n) == (t_12 + t_te \div 2) \div 2 - t_12 - (n * t_dwell) \div 2
t_g13(n) == t_te \div 2 - t_2g1(n) - n * t_dwell
t_3g2(n) == (t_te \div 2 - t_12) \div 2 - (n * t_dwell) \div 2
t_g2r(n) == (t_te \div 2 - t_12) - t_3g2(n) - n * t_dwell

\* lines 63-79
DeriveIntervals ==
  /\ Running("derive")
  /\ T' = Some([t_2g1 |-> t_2g1(pw), t_g13 |-> t_g13(pw),
                t_3g2 |-> t_3g2(pw), t_g2r |-> t_g2r(pw)])
  /\ pc' = "operators"
  /\ UNCHANGED <<inputs, status, outfile, offset1, fid, rf_size, rho, result, pw, i,
                 sys, sigma0, H, detect, udelay, sigma1, elapsed, data, matfile>>

\* GAMMA operators as terms over the spin system they were built from
sigma_eq(s) == [op |-> "sigma_eq", sys |-> s]
Ho(s) == [op |-> "Ho", sys |-> s]
Fm(s) == [op |-> "Fm", sys |-> s]
prop(h, t) == [H |-> h, t |-> t]

\* lines 82-84
BuildOperators ==
  /\ Running("operators")
  /\ sigma0' = Some(sigma_eq(sys[1]))
  /\ H' = Some(Ho(sys[1]))
  /\ detect' = Some(Fm(sys[1]))
  /\ pc' = "props"
  /\ UNCHANGED <<inputs, status, outfile, offset1, fid, rf_size, rho, result, pw, i,
                 sys, T, udelay, sigma1, elapsed, data, matfile>>

\* lines 87-104: prop() takes any duration, negative ones included
BuildPropagators ==
  /\ Running("props")
  /\ udelay' = Some([udelay1 |-> prop(H[1], t_12),
                     udelay2g1 |-> prop(H[1], T[1].t_2g1),
                     udelayg13 |-> prop(H[1], T[1].t_g13),
                     udelay3g2 |-> prop(H[1], T[1].t_3g2),
                     udelayg2r |-> prop(H[1], T[1].t_g2r),
                     udelay01 |-> prop(H[1], 5000),
                     udelay02 |-> prop(H[1], 34000),
                     udelay021 |-> prop(H[1], 17000),
                     udelay022 |-> prop(H[1], 17000),
                     udelay031 |-> prop(H[1], 17000),
                     udelay032 |-> prop(H[1], 12000),
                     udelay03 |-> prop(H[1], 29000),
                     udelay_dwell |-> prop(H[1], t_dwell)])
  /\ pc' = "excite"
  /\ UNCHANGED <<inputs, status, outfile, offset1, fid, rf_size, rho, result, pw, i,
                 sys, T, sigma0, H, detect, sigma1, elapsed, data, matfile>>

\* A density operator is the list of unitaries applied to sigma0, oldest
\* first.  Angles are exact fractions <<numerator, denominator>> of a degree.
PulseY(beta) == [kind |-> "pulse", phi |-> 90, beta |-> <<beta, 1>>]
PulseXY(phi, beta) == [kind |-> "pulse", phi |-> phi, beta |-> beta]
Delay(t) == [kind |-> "evolve", t |-> t]

Iypuls(sg, beta) == Append(sg, PulseY(beta))
Ixypuls(sg, phi, beta) == Append(sg, PulseXY(phi, beta))
evolve(sg, U) == Append(sg, Delay(U.t))

\* lines 122 and 134: rho[i]*angle_factor*180/3.14159
AngleOf(sample) == <<sample * angle_factor * 180 * 100000, 314159>>

\* one step of the sequence outside the shaped pulses: sg is the new
\* density operator, dt the free-precession time it adds
Step(at, to, sg, dt) ==
  /\ Running(at)
  /\ sigma1' = sg
  /\ elapsed' = elapsed + dt
  /\ pc' = to
  /\ UNCHANGED <<inputs, status, outfile, offset1, fid, rf_size, rho, result, pw,
                 sys, T, sigma0, H, detect, udelay, data, matfile>>

\* lines 109-112
Excite == Step("excite", "delay12", Iypuls(<<>>, 90), 0) /\ UNCHANGED i
\* line 114
Evolve12 == Step("delay12", "refocus1", evolve(sigma1, udelay[1].udelay1), t_12)
              /\ UNCHANGED i
\* line 115
Refocus1 == Step("refocus1", "delay2g1", Iypuls(sigma1, 180), 0) /\ UNCHANGED i
\* line 116, and the loop initialisation of line 119
Evolve2g1 == Step("delay2g1", "train1", evolve(sigma1, udelay[1].udelay2g1),
                  udelay[1].udelay2g1.t) /\ i' = 0
\* faulty variant: the step evolves before it rotates
Train1Rotate_evolves_first ==
  /\ i < pw
  /\ Step("train1", "train1dwell", evolve(sigma1, udelay[1].udelay_dwell), t_dwell)
  /\ UNCHANGED i
\* lines 119-124: loop test, angle from rho[i], rotation about x
Train1Rotate == /\ i < pw
                /\ Step("train1", "train1dwell",
                        Ixypuls(sigma1, 0, AngleOf(rho[1][i + 1])), 0)
                /\ UNCHANGED i
\* line 125, and the increment of line 119
Train1Evolve == Step("train1dwell", "train1", evolve(sigma1, udelay[1].udelay_dwell),
                     t_dwell) /\ i' = i + 1
\* line 127, after the loop test of line 119 fails
Evolveg13 == /\ i >= pw
             /\ Step("train1", "refocus2", evolve(sigma1, udelay[1].udelayg13),
                     udelay[1].udelayg13.t)
             /\ UNCHANGED i
\* faulty variant: the second refocusing pulse is left out
Refocus2_missing == Step("refocus2", "delay3g2", sigma1, 0) /\ UNCHANGED i
\* line 128
Refocus2 == Step("refocus2", "delay3g2", Iypuls(sigma1, 180), 0) /\ UNCHANGED i
\* line 129, and the loop initialisation of line 131
Evolve3g2 == Step("delay3g2", "train2", evolve(sigma1, udelay[1].udelay3g2),
                  udelay[1].udelay3g2.t) /\ i' = 0
\* lines 131-135
Train2Rotate == /\ i < pw
                /\ Step("train2", "train2dwell",
                        Ixypuls(sigma1, 0, AngleOf(rho[1][i + 1])), 0)
                /\ UNCHANGED i
\* line 136, and the increment of line 131
Train2Evolve == Step("train2dwell", "train2", evolve(sigma1, udelay[1].udelay_dwell),
                     t_dwell) /\ i' = i + 1
\* line 139, after the loop test of line 131 fails
Evolveg2r == /\ i >= pw
             /\ Step("train2", "acquire", evolve(sigma1, udelay[1].udelayg2r),
                     udelay[1].udelayg2r.t)
             /\ UNCHANGED i

\* FID(sigma, D, H, td, N, data): N points of trace(D*sigma), td apart
FID(sg, D, h, td, n) == [sigma |-> sg, D |-> D, H |-> h, td |-> td, N |-> n]

\* lines 142-143
Acquire ==
  /\ Running("acquire")
  /\ data' = Some(FID(sigma1, detect[1], H[1], AcqDwell, NPoints))
  /\ pc' = "matlab"
  /\ UNCHANGED <<inputs, status, outfile, offset1, fid, rf_size, rho, result, pw, i,
                 sys, T, sigma0, H, detect, udelay, sigma1, elapsed, matfile>>

\* line 145
WriteMatlab ==
  /\ Running("matlab")
  /\ matfile' = Some([name |-> outfile[1], var |-> "test_fid", data |-> data[1]])
  /\ pc' = "report"
  /\ UNCHANGED <<inputs, status, outfile, offset1, fid, rf_size, rho, result, pw, i,
                 sys, T, sigma0, H, detect, udelay, sigma1, elapsed, data>>

\* lines 147-153: the first ten points are printed (the block holds 2048),
\* the buffer is freed and main returns 0
Finish ==
  /\ Running("report")
  /\ i' = NPrint
  /\ rho' = None
  /\ status' = "return0"
  /\ UNCHANGED <<inputs, pc, outfile, offset1, fid, rf_size, result, pw, sys, T,
                 sigma0, H, detect, udelay, sigma1, elapsed, data, matfile>>

Next ==
  \/ CheckArgs \/ OpenWave \/ SizeAndAlloc \/ ReadWave \/ PrintWave
  \/ SysRead \/ OffsetShifts \/ DeriveIntervals \/ BuildOperators \/ BuildPropagators
  \/ Excite \/ Evolve12 \/ Refocus1 \/ Evolve2g1
  \/ Train1Rotate \/ Train1Evolve \/ Evolveg13
  \/ Refocus2 \/ Evolve3g2
  \/ Train2Rotate \/ Train2Evolve \/ Evolveg2r
  \/ Acquire \/ WriteMatlab \/ Finish

Spec == Init /\ [][Next]_vars

\* ------------------------------------------------------------ helpers
Intervals == T[1]
Sum4 == Intervals.t_2g1 + Intervals.t_g13 + Intervals.t_3g2 + Intervals.t_g2r
AllNonNegative == /\ Intervals.t_2g1 >= 0 /\ Intervals.t_g13 >= 0
                  /\ Intervals.t_3g2 >= 0 /\ Intervals.t_g2r >= 0

\* the 2n unitaries of one shaped-pulse train over the buffer buf
TrainOps(buf, n) ==
  [k \in 1..(2 * n) |-> IF k % 2 = 1 THEN PulseXY(0, AngleOf(buf[(k + 1) \div 2]))
                        ELSE Delay(t_dwell)]

\* the whole sequence of section 4.4, from the 90-degree pulse to the last delay
FullSequence(buf, n, iv) ==
  <<PulseY(90), Delay(t_12), PulseY(180), Delay(iv.t_2g1)>> \o TrainOps(buf, n)
  \o <<Delay(iv.t_g13), PulseY(180), Delay(iv.t_3g2)>> \o TrainOps(buf, n)
  \o <<Delay(iv.t_g2r)>>

\* how many unitaries the density operator carries between two steps
\* (outside the shaped-pulse loops and at their first and last test)
StepsDoneAt(n) ==
  CASE pc = "delay12" -> 1
    [] pc = "refocus1" -> 2
    [] pc = "delay2g1" -> 3
    [] pc = "train1" -> 4 + 2 * i
    [] pc = "refocus2" -> 5 + 2 * n
    [] pc = "delay3g2" -> 6 + 2 * n
    [] pc = "train2" -> 7 + 2 * n + 2 * i
    [] pc \in {"acquire", "matlab", "report"} -> 8 + 4 * n
    [] OTHER -> 0

BetweenSteps ==
  \/ pc \in {"delay12", "refocus1", "delay2g1", "refocus2", "delay3g2", "acquire",
             "matlab", "report"}
  \/ pc \in {"train1", "train2"} /\ i \in {0, pw}

\* ------------------------------------------------------------- claims

\* C1 as stated: the four derived delays plus 2*T12 plus 2*N*dwell equal the
\* echo time whenever the delays are non-negative.
C1_ClosureAsStated ==
  (T # None /\ AllNonNegative) => Sum4 + 2 * t_12 + 2 * pw * t_dwell = t_te

\* C1 amended: the four derived delays plus T12 (once) plus 2*N*dwell equal
\* the echo time, for every waveform length N.
C1_Closure ==
  T # None => Sum4 + t_12 + 2 * pw * t_dwell = t_te

C1_Witness ==
  /\ T # None /\ AllNonNegative
  /\ pw = 4 /\ rho # None /\ rho[1] = <<0, 0, 0, 0>>

\* C2: between any two steps the density operator is the equilibrium state
\* with exactly the steps of the fixed order applied so far, each on top of
\* the one before (90y, T12, 180y, T_2g1, train 1, T_g13, 180y, T_3g2,
\* train 2 over the same buffer, T_g2r); the FID is taken from the state
\* after the last delay and the file holds that FID.
C2_StepOrder ==
  /\ (udelay = None) => sigma1 = <<>> /\ data = None
  /\ (udelay # None /\ rho # None /\ BetweenSteps) =>
        sigma1 = SubSeq(FullSequence(rho[1], pw, Intervals), 1, StepsDoneAt(pw))
  /\ (data # None /\ rho # None) =>
        data[1].sigma = FullSequence(rho[1], pw, Intervals)
  /\ data # None => data[1].sigma = sigma1 /\ pc \in {"matlab", "report"}
  /\ matfile # None => data # None /\ matfile[1].data = data[1]
  /\ status = "return0" => matfile # None

C2_Witness ==
  /\ status = "return0" /\ pw = 2 /\ matfile # None
  /\ Len(matfile[1].data.sigma) = 16

\* C3: once a derived delay is negative, no propagator is built, nothing is
\* applied to the density operator and no signal is written.
C3_NegativeDelayIsFatal ==
  (T # None /\ ~AllNonNegative) =>
     /\ udelay = None /\ sigma1 = <<>> /\ data = None /\ matfile = None
     /\ pc \in {"operators", "props"}

\* C4: a shaped-pulse train over an N-sample buffer is N steps in buffer
\* order, each a rotation about x by the angle of sample i followed by one
\* dwell of free precession: 2N unitaries, rotation first, alternating; after
\* a full read the buffer order is the file order.
C4_TrainSteps ==
  LET base == IF pc \in {"train1", "train1dwell"} THEN 4 ELSE 7 + 2 * pw
      n == Len(sigma1)
  IN  /\ pc \in {"train1", "train2"} =>
            /\ i >= 0 /\ i <= pw
            /\ n = base + 2 * i
            /\ i > 0 => /\ sigma1[n - 1] = PulseXY(0, AngleOf(rho[1][i]))
                        /\ sigma1[n] = Delay(t_dwell)
            /\ i = pw => SubSeq(sigma1, base + 1, base + 2 * pw) = TrainOps(rho[1], pw)
            /\ (i = pw /\ result = pw) =>
                  SubSeq(sigma1, base + 1, base + 2 * pw) = TrainOps(wavfile[1].samples, pw)
      /\ pc \in {"train1dwell", "train2dwell"} =>
            /\ i >= 0 /\ i < pw
            /\ n = base + 2 * i + 1
            /\ sigma1[n] = PulseXY(0, AngleOf(rho[1][i + 1]))

C4_Witness ==
  /\ pc = "train2" /\ i = pw /\ pw = 2
  /\ rho[1] = <<1, 0>>

InputsBad == wavfile = None \/ ~sysfile \/ (rho # None /\ result < pw)
NothingSimulated ==
  /\ sigma0 = None /\ H = None /\ detect = None /\ udelay = None
  /\ sigma1 = <<>> /\ data = None /\ matfile = None

\* C5: with the waveform or the spin system missing or unreadable nothing is
\* constructed, applied or written; and a run that failed wrote no output.
C5_AbortBeforeSimulation ==
  /\ InputsBad => NothingSimulated
  /\ status \in {"exit0", "exit1", "exit2", "crash", "fatal"} => matfile = None

EmptyWave == Len(argv) = 3 /\ wavfile # None /\ wavfile[1].samples = <<>> /\ sysfile

\* C6: with an empty waveform each train leaves the density operator and
\* the clock as they were, and the run goes on to a complete signal (it is
\* not killed on the way; an allocation failure is not counted).
C6_EmptyWaveCompletes ==
  EmptyWave =>
     /\ status # "crash"
     /\ pc = "refocus2" =>
           sigma1 = <<PulseY(90), Delay(t_12), PulseY(180), Delay(Intervals.t_2g1),
                      Delay(Intervals.t_g13)>>
     /\ status = "return0" => matfile # None /\ elapsed = t_te

\* the time (x4) of the middle of the shaped pulse being played, counted
\* from the excitation pulse: start + N*dwell/2, start = elapsed - i*dwell
MidTimes4 == 4 * (elapsed - i * t_dwell) + 2 * pw * t_dwell
InTrain1 == pc \in {"train1", "train1dwell"}
InTrain2 == pc \in {"train2", "train2dwell"}

\* C7 as stated: editing pulse 1 is centred at TE/4 and pulse 2 at 3*TE/4.
C7_CentredAsStated ==
  (T # None /\ AllNonNegative) =>
     /\ InTrain1 => MidTimes4 = t_te
     /\ InTrain2 => MidTimes4 = 3 * t_te

\* C7 amended: editing pulse 1 is centred at TE/4 + T12/2 and pulse 2 at
\* 3*TE/4 + T12/2 (half an echo time apart), whenever the delays are
\* non-negative.
C7_Centred ==
  (T # None /\ AllNonNegative) =>
     /\ InTrain1 => MidTimes4 = t_te + 2 * t_12
     /\ InTrain2 => MidTimes4 = 3 * t_te + 2 * t_12

C7_Witness ==
  /\ pc = "train2" /\ i = pw /\ pw = NPrint
  /\ AllNonNegative

OperatorsBuilt == sigma0 # None \/ H # None \/ detect # None

\* C8: the spin system changes only by its load and then once by
\* offsetShifts(atoi(argv[2])), both before any operator exists; the
\* operators are built from that shifted system; afterwards the system and
\* the waveform buffer stay as they are (the buffer until it is freed at
\* the very end).
C8_SysFrame ==
  [][ /\ sys' # sys =>
          /\ ~OperatorsBuilt /\ udelay = None
          /\ \/ sys = None /\ sys'[1].shift = 0
             \/ /\ sys # None /\ sys[1].shift = 0
                /\ sys' = Some(offsetShifts(sys[1], atoi(argv[3])))
      /\ ~OperatorsBuilt /\ OperatorsBuilt' =>
          /\ sys' = sys
          /\ sys[1].shift = atoi(argv[3]) /\ offset1 = atoi(argv[3])
          /\ sigma0' = Some(sigma_eq(sys[1])) /\ H' = Some(Ho(sys[1]))
          /\ detect' = Some(Fm(sys[1]))
      /\ OperatorsBuilt =>
          /\ sys' = sys /\ sigma0' = sigma0 /\ H' = H /\ detect' = detect
          /\ rho' = rho \/ (rho' = None /\ status' = "return0")
    ]_vars

C8_Witness ==
  /\ status = "return0" /\ OperatorsBuilt
  /\ sys[1].loaded /\ sys[1].shift = -5
  /\ H[1].sys = sys[1]

\* where main() is about to read rho[i]
AtBufferRead ==
  /\ status = "running"
  /\ \/ pc = "print" /\ i < NPrint
     \/ pc \in {"train1", "train2"} /\ i < pw

\* C9: every read of the waveform buffer uses an index 0 <= i < pw.
C9_ReadsInBounds ==
  AtBufferRead => (0 <= i /\ i < pw)

\* C10: the sample that drove the rotation just applied was filled by the
\* read: the trains never take more samples than fread returned.
C10_RotationsFromFile ==
  /\ rho # None => pw <= result
  /\ pc \in {"train1dwell", "train2dwell"} => i < result
====
